---- MODULE Spec2Model ----
(***************************************************************************)
(* Model of whatsmyname/app/tasks/process.py: site corpus filtering,       *)
(* probe generation, concurrent dispatch, result filtering and error       *)
(* capture.  Strings are sequences of one-character strings so that        *)
(* startswith, replace, lower and "in" are computed, not assumed.          *)
(***************************************************************************)
EXTENDS Integers, Sequences, FiniteSets, TLC

VARIABLES
    \* generate_username_sites(usernames, sites)
    gen_usernames, gen_sites, gen_pc, gen_result,
    \* filter_list_by / capture_errors
    flt_sites, flt_all, flt_not_found, flt_pc, flt_result, fs_files, fs_log,
    \* get_sites_list / process_cli
    cli_corpus, cli_category, cli_names, cli_usernames, cli_validate_knowns,
    cli_pc, cli_sites, cli_probes, cli_entered,
    \* request_controller / request_worker
    sites, response, opt_verbose, opt_capture_errors, ctl_pc, results, ctl_exc,
    task_pc, task_exc, task_ret, raised, done_order

gen_vars == <<gen_usernames, gen_sites, gen_pc, gen_result>>
flt_vars == <<flt_sites, flt_all, flt_not_found, flt_pc, flt_result, fs_files, fs_log>>
cli_vars == <<cli_corpus, cli_category, cli_names, cli_usernames, cli_validate_knowns,
              cli_pc, cli_sites, cli_probes, cli_entered>>
req_vars == <<sites, response, opt_verbose, opt_capture_errors, ctl_pc, results, ctl_exc,
              task_pc, task_exc, task_ret, raised, done_order>>
vars == <<gen_vars, flt_vars, cli_vars, req_vars>>

(***************************************************************************)
(* Bounds of the model.                                                    *)
(***************************************************************************)
MaxUsernames == 3
MaxSites == 2
MaxOutcomes == 2
MaxCorpus == 2
MaxNames == 2
MaxProbes == 3

(***************************************************************************)
(* Strings.                                                                *)
(***************************************************************************)
None == <<>>

SeqsUpTo(S, n) == UNION {[1..k -> S] : k \in 0..n}

\* str.startswith(prefix)
StartsWith(s, prefix) ==
    /\ Len(s) >= Len(prefix)
    /\ SubSeq(s, 1, Len(prefix)) = prefix

\* sub in s, for a one-character sub
HasChar(s, c) == \E i \in 1..Len(s) : s[i] = c

\* str.replace(old, new): every non-overlapping occurrence, left to right,
\* without rescanning the inserted text
RECURSIVE Replace(_, _, _)
Replace(s, old, new) ==
    IF Len(s) < Len(old) THEN s
    ELSE IF StartsWith(s, old)
         THEN new \o Replace(SubSeq(s, Len(old) + 1, Len(s)), old, new)
         ELSE <<Head(s)>> \o Replace(Tail(s), old, new)

UpperAlpha == <<"A","B","C","D","E","F","G","H","I","J","K","L","M",
                "N","O","P","Q","R","S","T","U","V","W","X","Y","Z">>
LowerAlpha == <<"a","b","c","d","e","f","g","h","i","j","k","l","m",
                "n","o","p","q","r","s","t","u","v","w","x","y","z">>

LowerChar(c) ==
    IF \E i \in 1..26 : UpperAlpha[i] = c
    THEN LowerAlpha[CHOOSE i \in 1..26 : UpperAlpha[i] = c]
    ELSE c

\* str.lower()
Lower(s) == [i \in 1..Len(s) |-> LowerChar(s[i])]

Account == <<"{","a","c","c","o","u","n","t","}">>
Http == <<"h","t","t","p",":","/","/">>
Https == <<"h","t","t","p","s",":","/","/">>
HttpAccount == Http \o Account
HttpsAccount == Https \o Account

(***************************************************************************)
(* SiteSchema records.                                                     *)
(***************************************************************************)
Sentinel == -1

\* the status a record may carry before any request has written one
DefaultStatuses == {Sentinel, 0}

SiteSchema(name, category, valid, uri_check, e_code, m_code, known) ==
    [name |-> name, category |-> category, valid |-> valid,
     uri_check |-> uri_check, e_code |-> e_code, m_code |-> m_code,
     known |-> known, user_agent |-> None, username |-> None,
     generated_uri |-> None, http_status_code |-> 0,
     raw_response_data |-> None]

\* the templates and usernames the inputs are drawn from
PathTemplate == Https \o <<"e",".","c","o","m","/">> \o Account
HostTemplate == Http \o Account \o <<".","e",".","c","o","m">>
HostsTemplate == Https \o Account \o <<".","e",".","c","o","m">>
MidTemplate == Http \o <<"e",".","c","o","m","/">> \o Account \o <<"/","p">>

UserBo == <<"b","o">>
UserDotted == <<"b",".","o">>
UserE == <<"e">>
Usernames == {UserBo, UserDotted, UserE, Account}

SiteAb == SiteSchema(<<"A","b">>, <<"x">>, TRUE, PathTemplate, 200, 404, <<UserBo>>)
SiteCd == SiteSchema(<<"c","d">>, <<"X">>, TRUE, HostTemplate, 200, 404, <<UserDotted, UserBo>>)
SiteEf == SiteSchema(<<"E","f">>, <<"y">>, TRUE, HostsTemplate, 200, 200, <<UserE>>)
SiteGh == SiteSchema(<<"g","H">>, <<"x">>, TRUE, MidTemplate, 200, 404, <<UserBo>>)
SiteIj == SiteSchema(<<"a","b">>, <<"x">>, FALSE, PathTemplate, 200, 404, <<UserBo>>)
SiteDefs == {SiteAb, SiteCd, SiteEf, SiteGh, SiteIj}
ValidSiteDefs == {s \in SiteDefs : s.valid}

(***************************************************************************)
(* generate_username_sites                                                 *)
(***************************************************************************)
\* the ordered dict user_site_map: keys in insertion order, lists aligned
EmptyMap == [keys |-> <<>>, lists |-> <<>>]

KeyIndex(map, k) == CHOOSE j \in 1..Len(map.keys) : map.keys[j] = k
HasKey(map, k) == \E j \in 1..Len(map.keys) : map.keys[j] = k

\* user_site_map.get(username): the list, or None
DictGet(map, k) == IF HasKey(map, k) THEN map.lists[KeyIndex(map, k)] ELSE None

\* user_site_map[username] = value
DictSet(map, k, value) ==
    IF HasKey(map, k)
    THEN [map EXCEPT !.lists[KeyIndex(map, k)] = value]
    ELSE [keys |-> Append(map.keys, k), lists |-> Append(map.lists, value)]

\* github issue #55: a dotted username is no host label
SkipPairHttpOnly(site, username) ==
    /\ StartsWith(site.uri_check, HttpAccount)
    /\ HasChar(username, ".")

SkipPair(site, username) ==
    /\ \/ StartsWith(site.uri_check, HttpAccount)
       \/ StartsWith(site.uri_check, HttpsAccount)
    /\ HasChar(username, ".")

SiteCloneNoReplace(site, username) ==
    [site EXCEPT !.username = username, !.generated_uri = site.uri_check]

SiteClone(site, username) ==
    [site EXCEPT !.username = username,
                 !.generated_uri = Replace(site.uri_check, Account, username)]

MapAppendOverwrite(map, username, clone) == DictSet(map, username, <<clone>>)

MapAppend(map, username, clone) ==
    LET m1 == IF DictGet(map, username) = None
              THEN DictSet(map, username, <<>>)
              ELSE map
    IN  DictSet(m1, username, Append(DictGet(m1, username), clone))

RECURSIVE GenerateLoop(_, _, _, _, _)
GenerateLoop(usernames, ss, ui, si, map) ==
    IF ui > Len(usernames) THEN map
    ELSE IF si > Len(ss) THEN GenerateLoop(usernames, ss, ui + 1, 1, map)
    ELSE IF SkipPair(ss[si], usernames[ui])
         THEN GenerateLoop(usernames, ss, ui, si + 1, map)
         ELSE GenerateLoop(usernames, ss, ui, si + 1,
                           MapAppend(map, usernames[ui], SiteClone(ss[si], usernames[ui])))

RECURSIVE Flatten(_, _)
Flatten(lists, j) ==
    IF j > Len(lists) THEN <<>> ELSE lists[j] \o Flatten(lists, j + 1)

generate_username_sites(usernames, ss) ==
    Flatten(GenerateLoop(usernames, ss, 1, 1, EmptyMap).lists, 1)

\* the parts of the state a specification does not exercise
GenIdle ==
    /\ gen_usernames = <<>> /\ gen_sites = <<>> /\ gen_pc = "idle" /\ gen_result = <<>>
FltIdle ==
    /\ flt_sites = <<>> /\ flt_all = FALSE /\ flt_not_found = FALSE
    /\ flt_pc = "idle" /\ flt_result = <<>> /\ fs_files = {} /\ fs_log = <<>>
CliIdle ==
    /\ cli_corpus = <<>> /\ cli_category = None /\ cli_names = <<>>
    /\ cli_usernames = <<>> /\ cli_validate_knowns = FALSE
    /\ cli_pc = "idle" /\ cli_sites = <<>> /\ cli_probes = <<>> /\ cli_entered = FALSE
ReqIdle ==
    /\ sites = <<>> /\ response = <<>> /\ opt_verbose = FALSE /\ opt_capture_errors = FALSE
    /\ ctl_pc = "idle" /\ results = <<>> /\ ctl_exc = "None"
    /\ task_pc = <<>> /\ task_exc = <<>> /\ task_ret = <<>> /\ raised = <<>>
    /\ done_order = <<>>

GenInputs ==
    /\ gen_usernames \in SeqsUpTo(Usernames, MaxUsernames)
    /\ gen_sites \in SeqsUpTo(ValidSiteDefs, MaxSites)
    /\ gen_pc = "call"
    /\ gen_result = <<>>

GenInit == GenInputs /\ FltIdle /\ CliIdle /\ ReqIdle

GenerateUsernameSites ==
    /\ gen_pc = "call"
    /\ gen_result' = generate_username_sites(gen_usernames, gen_sites)
    /\ gen_pc' = "returned"
    /\ UNCHANGED <<gen_usernames, gen_sites>>
    /\ UNCHANGED <<flt_vars, cli_vars, req_vars>>

GenNext == GenerateUsernameSites

SpecGen == GenInit /\ [][GenNext]_vars

(***************************************************************************)
(* Properties of generate_username_sites                                   *)
(***************************************************************************)
HostPrefixTemplate(t) == StartsWith(t, HttpAccount) \/ StartsWith(t, HttpsAccount)

Excluded(username, site) ==
    HasChar(username, ".") /\ HostPrefixTemplate(site.uri_check)

IsProbeOf(d, username, site) ==
    /\ d.username = username
    /\ d.name = site.name
    /\ d.uri_check = site.uri_check

\* C5: a descriptor exists for the pair (U, S) exactly when it is not the
\* case that U has a dot and S's template starts with a scheme followed by
\* the placeholder; and every descriptor comes from such a pair.
C5_EligibilityIff ==
    gen_pc = "returned" =>
        /\ \A ui \in 1..Len(gen_usernames) : \A si \in 1..Len(gen_sites) :
              (\E k \in 1..Len(gen_result) :
                    IsProbeOf(gen_result[k], gen_usernames[ui], gen_sites[si]))
              <=> ~Excluded(gen_usernames[ui], gen_sites[si])
        /\ \A k \in 1..Len(gen_result) :
              \E ui \in 1..Len(gen_usernames) : \E si \in 1..Len(gen_sites) :
                    /\ IsProbeOf(gen_result[k], gen_usernames[ui], gen_sites[si])
                    /\ ~Excluded(gen_usernames[ui], gen_sites[si])

C5_Witness ==
    /\ gen_pc = "returned"
    /\ \E ui \in 1..Len(gen_usernames) :
          /\ gen_usernames[ui] = UserDotted
          /\ \E si \in 1..Len(gen_sites) : gen_sites[si] = SiteEf
          /\ \E si \in 1..Len(gen_sites) : gen_sites[si] = SiteAb
          /\ \E k \in 1..Len(gen_result) : IsProbeOf(gen_result[k], UserDotted, SiteAb)

\* the (username, site) pairs of a nested iteration over the username
\* positions in `order` and the sites, skipped pairs removed
RECURSIVE PairsInOrder(_, _, _, _, _)
PairsInOrder(usernames, ss, order, oi, si) ==
    IF oi > Len(order) THEN <<>>
    ELSE IF si > Len(ss) THEN PairsInOrder(usernames, ss, order, oi + 1, 1)
    ELSE (IF Excluded(usernames[order[oi]], ss[si])
          THEN <<>>
          ELSE << <<usernames[order[oi]], ss[si].name>> >>)
         \o PairsInOrder(usernames, ss, order, oi, si + 1)

Identity(n) == [i \in 1..n |-> i]

\* positions of the usernames grouped by username, groups in order of first
\* occurrence, positions ascending inside a group
RECURSIVE GroupedOrder(_, _)
GroupedOrder(usernames, i) ==
    IF i > Len(usernames) THEN <<>>
    ELSE (IF \E j \in 1..(i - 1) : usernames[j] = usernames[i]
          THEN <<>>
          ELSE SelectSeq(Identity(Len(usernames)),
                         LAMBDA j : usernames[j] = usernames[i]))
         \o GroupedOrder(usernames, i + 1)

ProbePairs(list) == [k \in 1..Len(list) |-> <<list[k].username, list[k].name>>]

\* no username recurs after a different username
NoSplitDuplicates(usernames) ==
    \A i, j \in 1..Len(usernames) :
        (i < j /\ usernames[i] = usernames[j]) =>
            \A m \in i..j : usernames[m] = usernames[i]

\* C6 (as stated): the result is the nested iteration over usernames in
\* their given order and sites in their given order, skipped pairs removed.
C6_IterationOrder ==
    gen_pc = "returned" =>
        ProbePairs(gen_result)
            = PairsInOrder(gen_usernames, gen_sites, Identity(Len(gen_usernames)), 1, 1)

\* C6 (amended): the result is grouped by username, groups in order of
\* first occurrence; it is the plain iteration order when no username
\* recurs after a different one.
C6_GroupedOrder ==
    gen_pc = "returned" =>
        /\ ProbePairs(gen_result)
              = PairsInOrder(gen_usernames, gen_sites, GroupedOrder(gen_usernames, 1), 1, 1)
        /\ NoSplitDuplicates(gen_usernames) =>
              ProbePairs(gen_result)
                  = PairsInOrder(gen_usernames, gen_sites,
                                 Identity(Len(gen_usernames)), 1, 1)

C6_Witness ==
    /\ gen_pc = "returned"
    /\ gen_usernames = <<UserBo, UserE, UserBo>>
    /\ gen_sites = <<SiteAb, SiteCd>>
    /\ Len(gen_result) = 6

\* number of positions at which sub occurs in s
CountOcc(s, sub) ==
    Cardinality({i \in 1..(Len(s) - Len(sub) + 1) : SubSeq(s, i, i + Len(sub) - 1) = sub})

PlaceholderPos(t) ==
    CHOOSE i \in 1..(Len(t) - Len(Account) + 1) :
        SubSeq(t, i, i + Len(Account) - 1) = Account

UsernameAtPlaceholder(d) ==
    LET t == d.uri_check
        p == PlaceholderPos(t)
    IN  d.generated_uri
            = SubSeq(t, 1, p - 1) \o d.username \o SubSeq(t, p + Len(Account), Len(t))

\* C9 (as stated): generated_uri has no placeholder token left, contains the
\* username exactly once, at the placeholder's position, rest unchanged.
C9_ResolvedUriExact ==
    gen_pc = "returned" =>
        \A k \in 1..Len(gen_result) :
            /\ CountOcc(gen_result[k].generated_uri, Account) = 0
            /\ CountOcc(gen_result[k].generated_uri, gen_result[k].username) = 1
            /\ UsernameAtPlaceholder(gen_result[k])

\* C9 (amended): for a template with exactly one placeholder, generated_uri
\* is the template with the username at the placeholder's position and the
\* rest unchanged.
C9_ResolvedUriSubstituted ==
    gen_pc = "returned" =>
        \A k \in 1..Len(gen_result) :
            CountOcc(gen_result[k].uri_check, Account) = 1
                => UsernameAtPlaceholder(gen_result[k])

C9_Witness ==
    /\ gen_pc = "returned"
    /\ \E k \in 1..Len(gen_result) :
          /\ gen_result[k].username = UserE
          /\ gen_result[k].uri_check = MidTemplate
          /\ CountOcc(gen_result[k].generated_uri, UserE) = 2
    /\ \E k \in 1..Len(gen_result) : gen_result[k].username = Account

(***************************************************************************)
(* filter_list_by and capture_errors                                       *)
(***************************************************************************)
CliOptions(all, not_found) ==
    [all |-> all, not_found |-> not_found, verbose |-> FALSE,
     random_username |-> UserBo, capture_error_directory |-> None,
     output_file |-> None]

\* filter(lambda site: site.http_status_code == site.m_code, sites)
FilterMissing(list) ==
    SelectSeq(list, LAMBDA site : site.http_status_code = site.m_code)

\* filter(lambda site: site.http_status_code == site.e_code, sites)
FilterFound(list) ==
    SelectSeq(list, LAMBDA site : site.http_status_code = site.e_code)

filter_list_by_no_all(cli_options, list) ==
    IF cli_options.not_found THEN FilterMissing(list) ELSE FilterFound(list)

filter_list_by(cli_options, list) ==
    IF cli_options.all THEN list
    ELSE IF cli_options.not_found THEN FilterMissing(list)
    ELSE FilterFound(list)

\* tempfile.gettempdir()
TempDir == <<"/","t","m","p">>
JsonSuffix == <<".","j","s","o","n">>

\* os.path.join(directory, 'whatsmyname', username, f'{name}.json')
CaptureFile(directory, site) ==
    <<directory, "whatsmyname", site.username, site.name \o JsonSuffix>>

\* the file system: a set of [path, content] entries, one per path
Exists(files, path) == \E f \in files : f.path = path
Remove(files, path) == {f \in files : f.path # path}

\* to_json(cli_options, sites): writes the sites to cli_options.output_file
to_json(files, cli_options, list) ==
    Remove(files, cli_options.output_file)
        \cup {[path |-> cli_options.output_file, content |-> list]}

\* one pass of the loop over not_found_sites; fs = [files, log]
CaptureOne(fs, directory, cloned, site) ==
    LET output_file == CaptureFile(directory, site)
        opts == [cloned EXCEPT !.output_file = output_file]
        stale == Exists(fs.files, output_file)
        files1 == IF stale THEN Remove(fs.files, output_file) ELSE fs.files
        log1 == IF stale
                THEN Append(fs.log, [op |-> "remove", path |-> output_file, site |-> site])
                ELSE fs.log
    IN  [files |-> to_json(files1, opts, <<site>>),
         log |-> Append(log1, [op |-> "write", path |-> output_file, site |-> site])]

RECURSIVE CaptureLoop(_, _, _, _, _)
CaptureLoop(fs, directory, cloned, list, k) ==
    IF k > Len(list) THEN fs
    ELSE CaptureLoop(CaptureOne(fs, directory, cloned, list[k]),
                     directory, cloned, list, k + 1)

capture_errors(fs, cli_options, list) ==
    LET options == [cli_options EXCEPT !.capture_error_directory = TempDir]
        cloned == [options EXCEPT !.random_username = None,
                                  !.not_found = TRUE,
                                  !.verbose = TRUE]
        not_found_sites == filter_list_by(cloned, list)
    IN  CaptureLoop(fs, options.capture_error_directory, cloned, not_found_sites, 1)

\* outcomes: descriptors after dispatch
Outcome(site, username, status) ==
    [SiteClone(site, username) EXCEPT !.http_status_code = status]

Outcomes ==
    {Outcome(site, username, status) :
        site \in {SiteAb, SiteEf}, username \in {UserBo, UserE},
        status \in {200, 404, Sentinel}}

StaleFile(site, username) ==
    [path |-> CaptureFile(TempDir, SiteClone(site, username)), content |-> "stale"]

FltInputs ==
    /\ flt_sites \in SeqsUpTo(Outcomes, MaxOutcomes)
    /\ flt_all \in BOOLEAN
    /\ flt_not_found \in BOOLEAN
    /\ fs_files \in SUBSET {StaleFile(SiteAb, UserBo), StaleFile(SiteEf, UserE)}
    /\ fs_log = <<>>
    /\ flt_pc = "call"
    /\ flt_result = <<>>

FltInit == FltInputs /\ GenIdle /\ CliIdle /\ ReqIdle

FilterListBy ==
    /\ flt_pc = "call"
    /\ flt_result' = filter_list_by(CliOptions(flt_all, flt_not_found), flt_sites)
    /\ flt_pc' = "filtered"
    /\ UNCHANGED <<flt_sites, flt_all, flt_not_found, fs_files, fs_log>>
    /\ UNCHANGED <<gen_vars, cli_vars, req_vars>>

CaptureErrors ==
    /\ flt_pc \in {"call", "filtered"}
    /\ LET fs == capture_errors([files |-> fs_files, log |-> fs_log],
                                CliOptions(flt_all, flt_not_found), flt_sites)
       IN  /\ fs_files' = fs.files
           /\ fs_log' = fs.log
    /\ flt_pc' = "captured"
    /\ UNCHANGED <<flt_sites, flt_all, flt_not_found, flt_result>>
    /\ UNCHANGED <<gen_vars, cli_vars, req_vars>>

FltNext == FilterListBy \/ CaptureErrors

SpecFlt == FltInit /\ [][FltNext]_vars

(***************************************************************************)
(* Properties of filter_list_by and capture_errors                         *)
(***************************************************************************)
Mode == IF flt_all THEN "all" ELSE IF flt_not_found THEN "not-found" ELSE "found"

Range(list) == {list[k] : k \in 1..Len(list)}

CodesDistinct(o) ==
    /\ o.e_code # o.m_code
    /\ o.e_code # Sentinel
    /\ o.m_code # Sentinel

\* C7: for a site with pairwise different found, missing and sentinel
\* codes, a found-status outcome is returned exactly under 'all' and
\* 'found', a missing-status outcome exactly under 'all' and 'not-found',
\* a sentinel outcome exactly under 'all'; 'all' returns the list as it is,
\* and every mode keeps the relative order.
C7_FilterModes ==
    flt_pc = "filtered" =>
        /\ \A k \in 1..Len(flt_sites) :
              LET o == flt_sites[k] IN
              CodesDistinct(o) =>
                  /\ o.http_status_code = o.e_code =>
                        (o \in Range(flt_result) <=> Mode \in {"all", "found"})
                  /\ o.http_status_code = o.m_code =>
                        (o \in Range(flt_result) <=> Mode \in {"all", "not-found"})
                  /\ o.http_status_code = Sentinel =>
                        (o \in Range(flt_result) <=> Mode = "all")
        /\ Mode = "all" => flt_result = flt_sites
        /\ flt_result = SelectSeq(flt_sites, LAMBDA o : o \in Range(flt_result))

C7_Witness ==
    /\ flt_pc = "filtered"
    /\ Mode = "not-found"
    /\ Len(flt_sites) = 2
    /\ flt_sites[1] = Outcome(SiteAb, UserBo, Sentinel)
    /\ flt_sites[2] = Outcome(SiteAb, UserBo, 404)
    /\ flt_result = <<flt_sites[2]>>

Wrote(o) ==
    \E j \in 1..Len(fs_log) :
        /\ fs_log[j].op = "write"
        /\ fs_log[j].site = o
        /\ fs_log[j].path = CaptureFile(TempDir, o)

\* C10: whatever the output mode, capture_errors writes an artifact for an
\* outcome exactly when its status is its site's expected-missing code, at
\* <tempDir>/whatsmyname/<username>/<siteName>.json, and a file already at
\* that path is removed before the write.
C10_CaptureOnlyNotFound ==
    flt_pc = "captured" =>
        /\ \A k \in 1..Len(flt_sites) :
              Wrote(flt_sites[k])
                  <=> flt_sites[k].http_status_code = flt_sites[k].m_code
        /\ \A f \in fs_files : f.content # "stale" =>
              \E o \in Range(flt_sites) :
                  /\ f.path = CaptureFile(TempDir, o)
                  /\ f.content = <<o>>
                  /\ o.http_status_code = o.m_code

(***************************************************************************)
(* get_sites_list, get_validated_site_list and process_cli                 *)
(***************************************************************************)
UserAgent == <<"u","a">>

NameMatchesExact(site, site_name) == site.name = site_name

\* site.name.lower() == site_name.lower()
NameMatches(site, site_name) == Lower(site.name) = Lower(site_name)

\* for site_name in cli_options.sites: for site in sites: append on a match
RECURSIVE FilterByNames(_, _, _, _)
FilterByNames(names, ss, ni, si) ==
    IF ni > Len(names) THEN <<>>
    ELSE IF si > Len(ss) THEN FilterByNames(names, ss, ni + 1, 1)
    ELSE (IF NameMatches(ss[si], names[ni]) THEN <<ss[si]>> ELSE <<>>)
         \o FilterByNames(names, ss, ni, si + 1)

\* the result of a call: a returned list, or a raised exception
Returned(list) == [raised |-> FALSE, value |-> list]
Raised == [raised |-> TRUE, value |-> <<>>]

get_sites_list(corpus, category, names) ==
    LET valid_sites == SelectSeq(corpus, LAMBDA site : site.valid)
        with_agent == [k \in 1..Len(valid_sites) |->
                          [valid_sites[k] EXCEPT !.user_agent = UserAgent]]
        in_category == IF category # None
                       THEN SelectSeq(with_agent,
                                LAMBDA site : Lower(site.category) = Lower(category))
                       ELSE with_agent
    IN  IF names # <<>>
        THEN LET filtered_sites == FilterByNames(names, in_category, 1, 1)
             IN  IF filtered_sites = <<>> THEN Raised ELSE Returned(filtered_sites)
        ELSE Returned(in_category)

RECURSIVE get_validated_site_list(_, _)
get_validated_site_list(ss, k) ==
    IF k > Len(ss) THEN <<>>
    ELSE generate_username_sites(ss[k].known, <<ss[k]>>)
         \o get_validated_site_list(ss, k + 1)

CliCategories == {None, <<"x">>, <<"Y">>}
CliNames == {<<"a","b">>, <<"C","D">>, <<"z","z">>}
CliUsernames == {<<UserBo>>, <<UserDotted, UserE>>}

CliInputs ==
    /\ cli_corpus \in SeqsUpTo(SiteDefs, MaxCorpus)
    /\ cli_category \in CliCategories
    /\ cli_names \in SeqsUpTo(CliNames, MaxNames)
    /\ cli_usernames \in CliUsernames
    /\ cli_validate_knowns \in BOOLEAN
    /\ cli_pc = "call"
    /\ cli_sites = <<>>
    /\ cli_probes = <<>>
    /\ cli_entered = FALSE

CliInit == CliInputs /\ GenIdle /\ FltIdle /\ ReqIdle

\* process_cli: the call of get_sites_list, evaluated first on both branches
ProcessCliGetSites ==
    /\ cli_pc = "call"
    /\ LET r == get_sites_list(cli_corpus, cli_category, cli_names)
       IN  /\ cli_pc' = IF r.raised THEN "raised" ELSE "sites"
           /\ cli_sites' = r.value
    /\ UNCHANGED <<cli_corpus, cli_category, cli_names, cli_usernames,
                   cli_validate_knowns, cli_probes, cli_entered>>
    /\ UNCHANGED <<gen_vars, flt_vars, req_vars>>

\* process_cli: the probes, from the knowns or from the usernames
ProcessCliGenerate ==
    /\ cli_pc = "sites"
    /\ cli_probes' = IF cli_validate_knowns
                     THEN get_validated_site_list(cli_sites, 1)
                     ELSE generate_username_sites(cli_usernames, cli_sites)
    /\ cli_pc' = "probes"
    /\ UNCHANGED <<cli_corpus, cli_category, cli_names, cli_usernames,
                   cli_validate_knowns, cli_sites, cli_entered>>
    /\ UNCHANGED <<gen_vars, flt_vars, req_vars>>

\* process_cli: await request_controller(cli_options, sites)
ProcessCliRequest ==
    /\ cli_pc = "probes"
    /\ cli_entered' = TRUE
    /\ cli_pc' = "requesting"
    /\ UNCHANGED <<cli_corpus, cli_category, cli_names, cli_usernames,
                   cli_validate_knowns, cli_sites, cli_probes>>
    /\ UNCHANGED <<gen_vars, flt_vars, req_vars>>

CliNext == ProcessCliGetSites \/ ProcessCliGenerate \/ ProcessCliRequest

SpecCli == CliInit /\ [][CliNext]_vars

(***************************************************************************)
(* Properties of get_sites_list and process_cli                            *)
(***************************************************************************)
\* a valid site of the corpus, inside the category filter if there is one,
\* whose name equals a requested name up to letter case
SomeSiteMatches ==
    \E k \in 1..Len(cli_corpus) : \E n \in 1..Len(cli_names) :
        /\ cli_corpus[k].valid
        /\ cli_category # None => Lower(cli_corpus[k].category) = Lower(cli_category)
        /\ Lower(cli_corpus[k].name) = Lower(cli_names[n])

\* C8: with an allow-list that no valid site matches, get_sites_list raises
\* and process_cli stops there, with no probe generated and
\* request_controller not entered; with a match (or no allow-list) it does
\* not raise.
C8_NoMatchRaisesFirst ==
    cli_pc # "call" =>
        /\ (cli_names # <<>> /\ ~SomeSiteMatches) =>
              /\ cli_pc = "raised"
              /\ cli_probes = <<>>
              /\ ~cli_entered
        /\ (cli_names = <<>> \/ SomeSiteMatches) => cli_pc # "raised"

C8_Witness ==
    /\ cli_pc = "raised"
    /\ cli_names = << <<"z","z">>, <<"a","b">> >>
    /\ cli_category = <<"Y">>
    /\ cli_corpus = <<SiteAb, SiteEf>>

C8_WitnessMatch ==
    /\ cli_pc = "requesting"
    /\ cli_names = << <<"a","b">> >>
    /\ cli_corpus = <<SiteIj, SiteAb>>
    /\ Len(cli_probes) = 1

(***************************************************************************)
(* request_controller and request_worker                                   *)
(***************************************************************************)
\* aiohttp's exception classes that are ClientConnectionError or one of its
\* subclasses: refused connection and DNS failure (ClientConnectorError),
\* TLS handshake failure (ClientConnectorSSLError), reset connection
\* (ClientOSError), ServerDisconnectedError, and the sock_connect and
\* sock_read timeouts of ClientTimeout (ServerTimeoutError)
ClientConnectionErrors ==
    {"ClientConnectionError", "ClientOSError", "ClientConnectorError",
     "ClientConnectorSSLError", "ServerDisconnectedError", "ServerTimeoutError"}

\* what session.get can raise; TimeoutError is asyncio.TimeoutError, raised
\* when the total timeout given to session.get expires; InvalidURL stands
\* for the exceptions outside ClientConnectionError
GetExceptions ==
    {"ClientConnectorError", "ClientConnectorSSLError", "ServerTimeoutError",
     "TimeoutError", "InvalidURL"}

\* what response.text() can raise
TextExceptions ==
    {"ClientOSError", "ServerTimeoutError", "TimeoutError", "ClientPayloadError"}

CaughtConnectorOnly(exc) == exc \in {"ClientConnectorError", "ClientConnectorSSLError"}

\* except ClientConnectionError
Caught(exc) == exc \in ClientConnectionErrors

OnExceptionAll(ss, i, exc) ==
    IF Caught(exc)
    THEN [j \in 1..Len(ss) |-> [ss[j] EXCEPT !.http_status_code = Sentinel]]
    ELSE ss

\* the except clause: the record of this worker gets the sentinel
OnException(ss, i, exc) ==
    IF Caught(exc) THEN [ss EXCEPT ![i].http_status_code = Sentinel] ELSE ss

\* finally: return site -- the return discards an exception still in flight
FinallyReturn(i, exc) == [exc |-> "None", ret |-> i]

GatherAsCompleted(ret, order) == [k \in 1..Len(order) |-> ret[order[k]]]

\* gather(*tasks): the tasks' return values, in the order of the tasks
Gather(ret, order) == [k \in 1..Len(ret) |-> ret[k]]

Body == <<"o","k">>

\* the descriptors a dispatch is given: the first n of a generated list
ProbeList ==
    generate_username_sites(<<UserBo, UserE>>, <<SiteAb, SiteGh, SiteCd>>)

\* what the servers answer, probe by probe
Responses(n) ==
    {[i \in 1..n |-> IF i % 2 = 1 THEN 200 ELSE 404],
     [i \in 1..n |-> IF i % 2 = 1 THEN 404 ELSE 200]}

ReqInputs ==
    \E n \in 0..MaxProbes : \E default \in DefaultStatuses :
        /\ sites = [i \in 1..n |-> [ProbeList[i] EXCEPT !.http_status_code = default]]
        /\ response \in Responses(n)
        /\ opt_verbose \in BOOLEAN
        /\ opt_capture_errors \in BOOLEAN
        /\ ctl_pc = "call"
        /\ results = <<>>
        /\ ctl_exc = "None"
        /\ task_pc = [i \in 1..n |-> "new"]
        /\ task_exc = [i \in 1..n |-> "None"]
        /\ task_ret = [i \in 1..n |-> 0]
        /\ raised = [i \in 1..n |-> "None"]
        /\ done_order = <<>>

Init == ReqInputs /\ GenIdle /\ FltIdle /\ CliIdle

\* request_controller up to the await: one task per site, in order
RequestController ==
    /\ ctl_pc = "call"
    /\ task_pc' = [i \in 1..Len(sites) |-> "get"]
    /\ ctl_pc' = "gather"
    /\ UNCHANGED <<sites, response, opt_verbose, opt_capture_errors, results,
                   ctl_exc, task_exc, task_ret, raised, done_order>>
    /\ UNCHANGED <<gen_vars, flt_vars, cli_vars>>

\* the worker leaves through the finally clause
WorkerExit(i, exc) ==
    LET out == FinallyReturn(i, exc)
    IN  /\ task_pc' = [task_pc EXCEPT ![i] = "done"]
        /\ task_exc' = [task_exc EXCEPT ![i] = out.exc]
        /\ task_ret' = [task_ret EXCEPT ![i] = out.ret]
        /\ done_order' = Append(done_order, i)

\* session.get answers: the status is stored, the body is awaited if wanted
WorkerResponse(i) ==
    /\ task_pc[i] = "get"
    /\ sites' = [sites EXCEPT ![i].http_status_code = response[i]]
    /\ IF opt_verbose \/ opt_capture_errors
       THEN /\ task_pc' = [task_pc EXCEPT ![i] = "text"]
            /\ UNCHANGED <<task_exc, task_ret, done_order>>
       ELSE WorkerExit(i, "None")
    /\ UNCHANGED <<response, opt_verbose, opt_capture_errors, ctl_pc, results,
                   ctl_exc, raised>>
    /\ UNCHANGED <<gen_vars, flt_vars, cli_vars>>

\* session.get raises
WorkerGetRaises(i) ==
    /\ task_pc[i] = "get"
    /\ \E exc \in GetExceptions :
          /\ raised' = [raised EXCEPT ![i] = exc]
          /\ sites' = OnException(sites, i, exc)
          /\ WorkerExit(i, exc)
    /\ UNCHANGED <<response, opt_verbose, opt_capture_errors, ctl_pc, results, ctl_exc>>
    /\ UNCHANGED <<gen_vars, flt_vars, cli_vars>>

\* response.text() returns the body
WorkerText(i) ==
    /\ task_pc[i] = "text"
    /\ sites' = [sites EXCEPT ![i].raw_response_data = Body]
    /\ WorkerExit(i, "None")
    /\ UNCHANGED <<response, opt_verbose, opt_capture_errors, ctl_pc, results,
                   ctl_exc, raised>>
    /\ UNCHANGED <<gen_vars, flt_vars, cli_vars>>

\* response.text() raises
WorkerTextRaises(i) ==
    /\ task_pc[i] = "text"
    /\ \E exc \in TextExceptions :
          /\ raised' = [raised EXCEPT ![i] = exc]
          /\ sites' = OnException(sites, i, exc)
          /\ WorkerExit(i, exc)
    /\ UNCHANGED <<response, opt_verbose, opt_capture_errors, ctl_pc, results, ctl_exc>>
    /\ UNCHANGED <<gen_vars, flt_vars, cli_vars>>

Failed(i) == task_pc[i] = "done" /\ task_exc[i] # "None"

\* await gather(*tasks): the list once every task is done, or the first
\* exception a task lets out
ControllerGather ==
    /\ ctl_pc = "gather"
    /\ \/ \A i \in 1..Len(sites) : task_pc[i] = "done"
       \/ \E i \in 1..Len(sites) : Failed(i)
    /\ IF \E i \in 1..Len(sites) : Failed(i)
       THEN /\ ctl_pc' = "raised"
            /\ ctl_exc' = task_exc[CHOOSE i \in 1..Len(sites) : Failed(i)]
            /\ UNCHANGED results
       ELSE /\ ctl_pc' = "returned"
            /\ results' = Gather(task_ret, done_order)
            /\ UNCHANGED ctl_exc
    /\ UNCHANGED <<sites, response, opt_verbose, opt_capture_errors,
                   task_pc, task_exc, task_ret, raised, done_order>>
    /\ UNCHANGED <<gen_vars, flt_vars, cli_vars>>

Next ==
    \/ RequestController
    \/ \E i \in 1..Len(sites) : WorkerResponse(i)
    \/ \E i \in 1..Len(sites) : WorkerGetRaises(i)
    \/ \E i \in 1..Len(sites) : WorkerText(i)
    \/ \E i \in 1..Len(sites) : WorkerTextRaises(i)
    \/ ControllerGather

Spec == Init /\ [][Next]_vars

(***************************************************************************)
(* Properties of request_controller and request_worker                     *)
(***************************************************************************)
N == Len(sites)

SameProbe(a, b) ==
    /\ a.name = b.name
    /\ a.username = b.username
    /\ a.generated_uri = b.generated_uri

\* C1: whatever the completion order and the failures, the returned list
\* is as long as the input and its i-th element is the record of the i-th
\* descriptor.
C1_ResultsAligned ==
    ctl_pc = "returned" =>
        /\ Len(results) = N
        /\ \A i \in 1..N :
              /\ results[i] = i
              /\ SameProbe(sites[results[i]], ProbeList[i])

C1_Witness ==
    /\ ctl_pc = "returned"
    /\ N = 3
    /\ done_order = <<3, 1, 2>>
    /\ raised = <<"ClientConnectorError", "TimeoutError", "None">>

OnlyFailure(i) ==
    /\ raised[i] # "None"
    /\ \A j \in 1..N : j # i => raised[j] = "None"

CompletedAsAnswered(j) ==
    /\ task_pc[j] = "done"
    /\ sites[j].http_status_code = response[j]
    /\ sites[j].raw_response_data
          = IF opt_verbose \/ opt_capture_errors THEN Body ELSE None

\* C2: when exactly one probe of a dispatch fails, every other probe has
\* run to completion when the dispatch ends and carries the status (and the
\* body, if captured) its server answered; and the failure leaves the
\* records of the siblings that were done before it as they were.
C2_Isolation ==
    \A i \in 1..N : OnlyFailure(i) =>
        /\ ctl_pc \in {"returned", "raised"} =>
              \A j \in 1..N : j # i => CompletedAsAnswered(j)
        /\ \A j \in 1..N : (j # i /\ task_pc[j] = "done") => CompletedAsAnswered(j)

C2_Witness ==
    /\ ctl_pc = "returned"
    /\ N = 3
    /\ OnlyFailure(2)
    /\ raised[2] = "ClientConnectorError"
    /\ done_order = <<1, 2, 3>>
    /\ opt_verbose
    /\ CompletedAsAnswered(1) /\ CompletedAsAnswered(3)

\* refused or reset connection, DNS failure, TLS handshake failure
TransportFailures ==
    {"ClientConnectorError", "ClientOSError", "ClientConnectorSSLError"}

\* C3: a probe whose request ends in a transport-level failure ends with
\* the sentinel status, and no exception reaches the caller of
\* request_controller.
C3_TransportFailureSentinel ==
    /\ \A i \in 1..N :
          (task_pc[i] = "done" /\ raised[i] \in TransportFailures) =>
              /\ sites[i].http_status_code = Sentinel
              /\ task_exc[i] = "None"
              /\ task_ret[i] = i
    /\ ctl_pc # "raised"

C3_Witness ==
    /\ ctl_pc = "returned"
    /\ N = 2
    /\ raised = <<"ClientOSError", "ClientConnectorSSLError">>
    /\ response[1] = 200

\* the sock_connect and sock_read timeouts, and the total timeout given to
\* session.get
Timeouts == {"ServerTimeoutError", "TimeoutError"}

\* C4: a probe that timed out ends with the sentinel status and no other.
C4_TimeoutSentinel ==
    \A i \in 1..N :
        (task_pc[i] = "done" /\ raised[i] \in Timeouts) =>
            sites[i].http_status_code = Sentinel

====
